---------------------------- MODULE Spec2Model ----------------------------
(***************************************************************************)
(* A model of the TeX tag parser of parsers/tex.c: the tokenizer           *)
(* (readTokenFull), the tag builder (parseTag), the scope tracker          *)
(* (getScopeInfo, updateScopeInfo), the driver (parseTexFile) and the      *)
(* parser callbacks the host calls (initialize, findTexTags, finalize).    *)
(*                                                                         *)
(* A character is a one-character string, a string of the program (a       *)
(* vString) is a sequence of characters, the input file is a sequence of   *)
(* characters read through a position.  Line numbers and file positions    *)
(* of tokens and tags are left out: no operation here reads them.          *)
(***************************************************************************)
EXTENDS Integers, Sequences, FiniteSets, TLC

(***************************************************************************)
(* Characters and strings.                                                 *)
(***************************************************************************)
EOF == "EOF"

Lower == {"a", "b", "c", "d", "e", "f", "g", "h", "i", "j", "k", "l", "m",
          "n", "o", "p", "q", "r", "s", "t", "u", "v", "w", "x", "y", "z"}

Upper == {"A", "B", "C", "D", "E", "F", "G", "H", "I", "J", "K", "L", "M",
          "N", "O", "P", "Q", "R", "S", "T", "U", "V", "W", "X", "Y", "Z"}

Digit == {"0", "1", "2", "3", "4", "5", "6", "7", "8", "9"}

\* isalpha (c), for the bytes the inputs are made of
IsAlpha(c) == c \in Lower \cup Upper

\* isIdentChar (c); "0x80" stands for a byte >= 0x80
IsIdentChar(c) ==
    \/ IsAlpha(c)
    \/ c \in Digit
    \/ c = "0x80"
    \/ c \in {"$", "_", "#", "-", ".", ":"}

\* The concatenation of a sequence of strings.
RECURSIVE Flatten(_)
Flatten(ss) == IF ss = <<>> THEN <<>> ELSE Head(ss) \o Flatten(Tail(ss))

(***************************************************************************)
(* Keywords, token types and tag kinds.                                    *)
(***************************************************************************)
KEYWORD_NONE == "KEYWORD_NONE"

TOKEN_UNDEFINED  == "TOKEN_UNDEFINED"
TOKEN_KEYWORD    == "TOKEN_KEYWORD"
TOKEN_IDENTIFIER == "TOKEN_IDENTIFIER"

TOKEN_OPEN_CURLY   == "{"
TOKEN_CLOSE_CURLY  == "}"
TOKEN_OPEN_SQUARE  == "["
TOKEN_CLOSE_SQUARE == "]"
TOKEN_STAR         == "*"

TEXTAG_PART          == 0
TEXTAG_CHAPTER       == 1
TEXTAG_SECTION       == 2
TEXTAG_SUBSECTION    == 3
TEXTAG_SUBSUBSECTION == 4
TEXTAG_PARAGRAPH     == 5
TEXTAG_SUBPARAGRAPH  == 6
TEXTAG_LABEL         == 7
TEXTAG_INCLUDE       == 8
TEXTAG_COUNT         == 9

\* "no parent kind"
KIND_GHOST_INDEX == -1

\* The enabled flag of each kind, as the table sets it.
TexKinds == [k \in 0 .. (TEXTAG_COUNT - 1) |-> [enabled |-> TRUE]]

\* The keyword table: the name of each keyword, by keyword id.
TexKeywordTable ==
    [KEYWORD_part          |-> <<"p", "a", "r", "t">>,
     KEYWORD_chapter       |-> <<"c", "h", "a", "p", "t", "e", "r">>,
     KEYWORD_section       |-> <<"s", "e", "c", "t", "i", "o", "n">>,
     KEYWORD_subsection    |-> <<"s", "u", "b", "s", "e", "c", "t", "i", "o", "n">>,
     KEYWORD_subsubsection |-> <<"s", "u", "b", "s", "u", "b", "s", "e", "c", "t", "i", "o", "n">>,
     KEYWORD_paragraph     |-> <<"p", "a", "r", "a", "g", "r", "a", "p", "h">>,
     KEYWORD_subparagraph  |-> <<"s", "u", "b", "p", "a", "r", "a", "g", "r", "a", "p", "h">>,
     KEYWORD_label         |-> <<"l", "a", "b", "e", "l">>,
     KEYWORD_include       |-> <<"i", "n", "c", "l", "u", "d", "e">>]

\* lookupKeyword (name, Lang_tex) over the table above
LookupKeyword(name) ==
    IF \E k \in DOMAIN TexKeywordTable : TexKeywordTable[k] = name
    THEN CHOOSE k \in DOMAIN TexKeywordTable : TexKeywordTable[k] = name
    ELSE KEYWORD_NONE

(***************************************************************************)
(* The character source: the input file and the read position in it.       *)
(***************************************************************************)
\* getcFromInputFile (): the character at p, EOF past the end
Getc(inp, p) == IF p <= Len(inp) THEN inp[p] ELSE EOF

\* the read position after getcFromInputFile () at p
AfterGetc(inp, p) == IF p <= Len(inp) THEN p + 1 ELSE p

\* skipToCharacterInInputFile (ch): reads up to and including the next ch,
\* or to the end of the input; the result is the read position after it.
RECURSIVE SkipToCharacterInInputFile(_, _, _)
SkipToCharacterInInputFile(inp, p, ch) ==
    IF p > Len(inp) THEN p
    ELSE IF inp[p] = ch THEN p + 1
    ELSE SkipToCharacterInInputFile(inp, p + 1, ch)

(***************************************************************************)
(* The tokenizer.                                                          *)
(***************************************************************************)
\* parseIdentifier (string, firstChar): firstChar is the character at p - 1
\* and is already in acc; appends the identifier characters that follow and
\* leaves the first other character unread.
RECURSIVE ParseIdentifier(_, _, _)
ParseIdentifier(inp, p, acc) ==
    LET c == Getc(inp, p)
    IN  IF c # EOF /\ IsIdentChar(c)
        THEN ParseIdentifier(inp, p + 1, Append(acc, c))
        ELSE [string |-> acc, pos |-> p]

\* The do-while loop of readTokenFull: reads characters until one is not a
\* tab, a space or a newline, counting every character read.
RECURSIVE SkipWhite(_, _, _)
SkipWhite(inp, p, n) ==
    LET c == Getc(inp, p)
    IN  IF c \in {"\t", " ", "\n"}
        THEN SkipWhite(inp, p + 1, n + 1)
        ELSE [c |-> c, pos |-> AfterGetc(inp, p), whitespaces |-> n + 1]

\* A token as readTokenFull leaves it, with the read position after it; ok
\* is the value readTokenFull returns.
Token(ok, type, keyword, string, p) ==
    [ok |-> ok, type |-> type, keyword |-> keyword, string |-> string,
     pos |-> p]

\* The token of a backslash followed by a letter: the identifier id read
\* after the backslash, looked up without the backslash.
CommandToken(id) ==
    Token(TRUE,
          IF LookupKeyword(Tail(id.string)) = KEYWORD_NONE
            THEN TOKEN_IDENTIFIER ELSE TOKEN_KEYWORD,
          LookupKeyword(Tail(id.string)), id.string, id.pos)

\* The token of a bare identifier id.
IdentifierToken(id) ==
    Token(TRUE, TOKEN_IDENTIFIER, KEYWORD_NONE, id.string, id.pos)

RECURSIVE GetNextChar(_, _, _, _)

\* The switch (c) without the case of the percent sign: a comment is read
\* as ordinary characters.
SwitchCharNoComment(inp, c, q, whitespaces, includeWhitespaces) ==
    CASE c = EOF ->
           Token(FALSE, EOF, KEYWORD_NONE, <<>>, q)
      [] c = "\\" ->
           IF ~IsAlpha(Getc(inp, q))
           THEN Token(TRUE, c, KEYWORD_NONE, <<>>, q)
           ELSE CommandToken(
                  ParseIdentifier(inp, q + 1, <<"\\", Getc(inp, q)>>))
      [] OTHER ->
           IF IsIdentChar(c)
           THEN IdentifierToken(ParseIdentifier(inp, q, <<c>>))
           ELSE Token(TRUE, c, KEYWORD_NONE, <<>>, q)

\* The switch (c) with a backslash before a character that is no letter
\* dropped and the scan started again.
SwitchCharDiscardsBackslash(inp, c, q, whitespaces, includeWhitespaces) ==
    CASE c = EOF ->
           Token(FALSE, EOF, KEYWORD_NONE, <<>>, q)
      [] c = "\\" ->
           IF ~IsAlpha(Getc(inp, q))
           THEN GetNextChar(inp, q, whitespaces, includeWhitespaces)
           ELSE CommandToken(
                  ParseIdentifier(inp, q + 1, <<"\\", Getc(inp, q)>>))
      [] c = "%" ->
           GetNextChar(inp, SkipToCharacterInInputFile(inp, q, "\n"),
                       whitespaces, includeWhitespaces)
      [] OTHER ->
           IF IsIdentChar(c)
           THEN IdentifierToken(ParseIdentifier(inp, q, <<c>>))
           ELSE Token(TRUE, c, KEYWORD_NONE, <<>>, q)

\* readTokenFull from token->type = c on, the switch (c): c is the character
\* in hand, q the read position after it, whitespaces the counter.
SwitchChar(inp, c, q, whitespaces, includeWhitespaces) ==
    CASE c = EOF ->
           Token(FALSE, EOF, KEYWORD_NONE, <<>>, q)
      [] c = "\\" ->
           IF ~IsAlpha(Getc(inp, q))
           THEN Token(TRUE, c, KEYWORD_NONE, <<>>, q)
           ELSE CommandToken(
                  ParseIdentifier(inp, q + 1, <<"\\", Getc(inp, q)>>))
      [] c = "%" ->
           GetNextChar(inp, SkipToCharacterInInputFile(inp, q, "\n"),
                       whitespaces, includeWhitespaces)
      [] OTHER ->
           IF IsIdentChar(c)
           THEN IdentifierToken(ParseIdentifier(inp, q, <<c>>))
           ELSE Token(TRUE, c, KEYWORD_NONE, <<>>, q)

\* readTokenFull after the do-while loop, whose result is s: a skipped run
\* is turned into a space and the character read is put back.
AfterSkipWhite(inp, s, includeWhitespaces) ==
    IF includeWhitespaces /\ s.whitespaces > 0 /\ s.c # "%" /\ s.c # EOF
    THEN SwitchChar(inp, " ", s.pos - 1, s.whitespaces, includeWhitespaces)
    ELSE SwitchChar(inp, s.c, s.pos, s.whitespaces, includeWhitespaces)

\* readTokenFull from the label getNextChar on, with the value the counter
\* whitespaces has there.
GetNextChar(inp, p, whitespaces, includeWhitespaces) ==
    AfterSkipWhite(inp, SkipWhite(inp, p, whitespaces), includeWhitespaces)

ReadTokenFull(inp, p, includeWhitespaces) ==
    GetNextChar(inp, p, -1, includeWhitespaces)

ReadToken(inp, p) == ReadTokenFull(inp, p, FALSE)


(***************************************************************************)
(* The state.                                                              *)
(*   lastPart .. lastSubSubS  the remembered names (NULL when not created) *)
(*   pc      where the host is: "start" (nothing created), "ready" (after  *)
(*           initialize), "parsing" (in the loop of parseTexFile),         *)
(*           "returned" (findTexTags has returned), "finalized"            *)
(*   input   the characters of the input file being parsed                 *)
(*   pos     the read position in input                                    *)
(*   eof     the local eof of parseTexFile                                 *)
(*   exit    the place where the call of parseTag of the latest iteration  *)
(*           of the loop left: "end" (it ran to its end), "emptyCurly" or  *)
(*           the place of the read that failed; "none" when the iteration  *)
(*           made no call                                                  *)
(*   tags    the tag entries made for the current input file, in order     *)
(***************************************************************************)
VARIABLES lastPart, lastChapter, lastSection, lastSubS, lastSubSubS,
          pc, input, pos, eof, exit, tags

vars == <<lastPart, lastChapter, lastSection, lastSubS, lastSubSubS,
          pc, input, pos, eof, exit, tags>>

scopeVars == <<lastPart, lastChapter, lastSection, lastSubS, lastSubSubS>>

NULL == <<"NULL">>

\* vStringLength
vStringLength(s) == Len(s)

(***************************************************************************)
(* The scope tracker.                                                      *)
(***************************************************************************)
\* The first loop of getScopeInfo, from level i down: the parent kind.
RECURSIVE ParentKindFrom(_)
ParentKindFrom(i) ==
    IF i < TEXTAG_PART THEN KIND_GHOST_INDEX
    ELSE IF i = TEXTAG_SUBSECTION /\ vStringLength(lastSubS) > 0 THEN i
    ELSE IF i = TEXTAG_SECTION /\ vStringLength(lastSection) > 0 THEN i
    ELSE IF i = TEXTAG_CHAPTER /\ vStringLength(lastChapter) > 0 THEN i
    ELSE IF i = TEXTAG_PART /\ vStringLength(lastPart) > 0 THEN i
    ELSE ParentKindFrom(i - 1)

\* The separator of the segments of a scope name: two double quotes.
ScopeSeparator == <<"\"", "\"">>

\* The second loop of getScopeInfo, from level i up to kind - 1, with
\* parentName as built so far.
RECURSIVE ParentNameFrom(_, _, _)
ParentNameFrom(i, kind, parentName) ==
    IF i >= kind THEN parentName
    ELSE LET sep == IF vStringLength(parentName) > 0 THEN ScopeSeparator
                                                    ELSE <<>>
         IN  ParentNameFrom(i + 1, kind,
               IF i = TEXTAG_PART /\ vStringLength(lastPart) > 0
                 THEN parentName \o lastPart
               ELSE IF i = TEXTAG_CHAPTER /\ vStringLength(lastChapter) > 0
                 THEN parentName \o sep \o lastChapter
               ELSE IF i = TEXTAG_SECTION /\ vStringLength(lastSection) > 0
                 THEN parentName \o sep \o lastSection
               ELSE IF i = TEXTAG_SUBSECTION /\ vStringLength(lastSubS) > 0
                 THEN parentName \o sep \o lastSubS
               ELSE parentName)

\* getScopeInfo (kind, parentName): the parent kind returned and what
\* parentName holds afterwards (it is empty before).
GetScopeInfo(kind) ==
    IF kind >= TEXTAG_LABEL
    THEN [parentKind |-> KIND_GHOST_INDEX, parentName |-> <<>>]
    ELSE [parentKind |-> ParentKindFrom(kind - 1),
          parentName |-> ParentNameFrom(TEXTAG_PART, kind, <<>>)]

\* makeTexTag (token, kind) for a token whose string is name: the tag
\* entries handed to makeTagEntry (none for a disabled kind).  scopeName is
\* set only together with scopeKindIndex.
MakeTexTag(name, kind) ==
    IF TexKinds[kind].enabled
    THEN LET sc == GetScopeInfo(kind)
         IN  << [name |-> name, kind |-> kind,
                 scopeKindIndex |-> sc.parentKind,
                 scopeName |-> IF sc.parentKind # KIND_GHOST_INDEX
                               THEN sc.parentName ELSE <<>>] >>
    ELSE <<>>

\* updateScopeInfo with the deeper levels left as they are.
UpdateScopeInfoKeepsDeeper(kind, fullname) ==
    CASE kind = TEXTAG_PART ->
           lastPart' = fullname
             /\ UNCHANGED <<lastChapter, lastSection, lastSubS, lastSubSubS>>
      [] kind = TEXTAG_CHAPTER ->
           lastChapter' = fullname
             /\ UNCHANGED <<lastPart, lastSection, lastSubS, lastSubSubS>>
      [] kind = TEXTAG_SECTION ->
           lastSection' = fullname
             /\ UNCHANGED <<lastPart, lastChapter, lastSubS, lastSubSubS>>
      [] kind = TEXTAG_SUBSECTION ->
           lastSubS' = fullname
             /\ UNCHANGED <<lastPart, lastChapter, lastSection, lastSubSubS>>
      [] kind = TEXTAG_SUBSUBSECTION ->
           lastSubSubS' = fullname
             /\ UNCHANGED <<lastPart, lastChapter, lastSection, lastSubS>>
      [] OTHER -> UNCHANGED scopeVars

\* updateScopeInfo with a default case that empties the deepest remembered
\* name.
UpdateScopeInfoDefaultClears(kind, fullname) ==
    CASE kind = TEXTAG_PART ->
           /\ lastPart' = fullname
           /\ lastChapter' = <<>>
           /\ lastSection' = <<>>
           /\ lastSubS' = <<>>
           /\ lastSubSubS' = <<>>
      [] kind = TEXTAG_CHAPTER ->
           /\ lastChapter' = fullname
           /\ lastSection' = <<>>
           /\ lastSubS' = <<>>
           /\ lastSubSubS' = <<>>
           /\ UNCHANGED lastPart
      [] kind = TEXTAG_SECTION ->
           /\ lastSection' = fullname
           /\ lastSubS' = <<>>
           /\ lastSubSubS' = <<>>
           /\ UNCHANGED <<lastPart, lastChapter>>
      [] kind = TEXTAG_SUBSECTION ->
           /\ lastSubS' = fullname
           /\ lastSubSubS' = <<>>
           /\ UNCHANGED <<lastPart, lastChapter, lastSection>>
      [] kind = TEXTAG_SUBSUBSECTION ->
           /\ lastSubSubS' = fullname
           /\ UNCHANGED <<lastPart, lastChapter, lastSection, lastSubS>>
      [] OTHER ->
           /\ lastSubSubS' = <<>>
           /\ UNCHANGED <<lastPart, lastChapter, lastSection, lastSubS>>

\* updateScopeInfo (kind, fullname)
UpdateScopeInfo(kind, fullname) ==
    CASE kind = TEXTAG_PART ->
           /\ lastPart' = fullname
           /\ lastChapter' = <<>>
           /\ lastSection' = <<>>
           /\ lastSubS' = <<>>
           /\ lastSubSubS' = <<>>
      [] kind = TEXTAG_CHAPTER ->
           /\ lastChapter' = fullname
           /\ lastSection' = <<>>
           /\ lastSubS' = <<>>
           /\ lastSubSubS' = <<>>
           /\ UNCHANGED lastPart
      [] kind = TEXTAG_SECTION ->
           /\ lastSection' = fullname
           /\ lastSubS' = <<>>
           /\ lastSubSubS' = <<>>
           /\ UNCHANGED <<lastPart, lastChapter>>
      [] kind = TEXTAG_SUBSECTION ->
           /\ lastSubS' = fullname
           /\ lastSubSubS' = <<>>
           /\ UNCHANGED <<lastPart, lastChapter, lastSection>>
      [] kind = TEXTAG_SUBSUBSECTION ->
           /\ lastSubSubS' = fullname
           /\ UNCHANGED <<lastPart, lastChapter, lastSection, lastSubS>>
      [] OTHER -> UNCHANGED scopeVars

(***************************************************************************)
(* The tag builder.  parseTag is a chain of its four sections; each maps   *)
(* a frame, the locals of the call, to the frame after the section:        *)
(*   token        the current token (type, keyword, string)                *)
(*   pos          the read position                                        *)
(*   fullname     the name accumulated so far                              *)
(*   useLongName  whether the brace body is accumulated                    *)
(*   depth        the depth of the brace body                              *)
(*   eof          the value to return                                      *)
(*   out          whether the call has jumped to the label out             *)
(*   exit         the place of that jump ("end" when there was none)       *)
(*   made         the tag entries made by the call                         *)
(***************************************************************************)
isType(token, t) == token.type = t

\* The token fields of a token read.
TokenOf(t) == [type |-> t.type, keyword |-> t.keyword, string |-> t.string]

\* if (!readToken (token)) { eof = true; goto out; } for the read whose
\* result is t, at the place where.
Read(f, t, where) ==
    IF t.ok
    THEN [f EXCEPT !.token = TokenOf(t), !.pos = t.pos]
    ELSE [f EXCEPT !.token = TokenOf(t), !.pos = t.pos,
                   !.eof = TRUE, !.out = TRUE, !.exit = where]

\* if (isType (token, TOKEN_KEYWORD)) { copyToken; readToken }
KeywordSection(f) ==
    IF isType(f.token, TOKEN_KEYWORD)
    THEN Read(f, ReadToken(input, f.pos), "keyword")
    ELSE f

\* The bracket loop body with no space put between the identifiers.
SquareAppendNoSpace(f, enterSquare) ==
    IF enterSquare /\ isType(f.token, TOKEN_IDENTIFIER)
    THEN [f EXCEPT !.fullname = @ \o f.token.string]
    ELSE f

\* The body of the bracket loop before its read: an identifier is appended
\* to fullname, after a space when fullname is not empty.
SquareAppend(f, enterSquare) ==
    IF enterSquare /\ isType(f.token, TOKEN_IDENTIFIER)
    THEN [f EXCEPT !.fullname =
            (IF vStringLength(@) > 0 THEN Append(@, " ") ELSE @)
              \o f.token.string]
    ELSE f

\* while (! isType (token, TOKEN_CLOSE_SQUARE)) { ... } of the bracket; it
\* is left by the jump to out when a read fails.
RECURSIVE SquareLoop(_, _)
SquareLoop(f, enterSquare) ==
    IF f.out \/ isType(f.token, TOKEN_CLOSE_SQUARE) THEN f
    ELSE SquareLoop(Read(SquareAppend(f, enterSquare),
                         ReadToken(input, f.pos), "square"),
                    enterSquare)

\* The bracket section after its loop.
SquareEnd(f, kind, enterSquare) ==
    IF f.out THEN f
    ELSE IF enterSquare
    THEN [f EXCEPT !.made = @ \o MakeTexTag(f.fullname, kind)]
    ELSE Read(f, ReadToken(input, f.pos), "afterSquare")

\* if (isType (token, TOKEN_OPEN_SQUARE)) { ... }
SquareSection(f, kind, enterSquare) ==
    IF f.out \/ ~isType(f.token, TOKEN_OPEN_SQUARE) THEN f
    ELSE SquareEnd(
           SquareLoop(
             Read([f EXCEPT !.useLongName = IF enterSquare THEN FALSE ELSE @],
                  ReadToken(input, f.pos), "square"),
             enterSquare),
           kind, enterSquare)

\* if (isType (token, TOKEN_STAR)) { readToken }
StarSection(f) ==
    IF f.out \/ ~isType(f.token, TOKEN_STAR) THEN f
    ELSE Read(f, ReadToken(input, f.pos), "star")

\* The body of the brace loop before its read: the token is appended to
\* fullname, an identifier or keyword as its string, any other as its byte.
CurlyAppend(f) ==
    IF f.useLongName
    THEN [f EXCEPT !.fullname =
            IF isType(f.token, TOKEN_IDENTIFIER)
                 \/ isType(f.token, TOKEN_KEYWORD)
            THEN @ \o f.token.string
            ELSE Append(@, f.token.type)]
    ELSE f

\* The body of the brace loop from its read on: the read, then depth++ on an
\* open brace and depth-- on a close brace.
CurlyRead(f, t) ==
    IF ~t.ok THEN Read(f, t, "curly")
    ELSE [Read(f, t, "curly") EXCEPT !.depth =
            IF isType(t, TOKEN_OPEN_CURLY) THEN @ + 1
            ELSE IF isType(t, TOKEN_CLOSE_CURLY) THEN @ - 1
            ELSE @]

\* while (depth > 0) { ... } of the brace body; it is left by the jump to
\* out when a read fails.
RECURSIVE CurlyLoop(_)
CurlyLoop(f) ==
    IF f.out \/ f.depth <= 0 THEN f
    ELSE CurlyLoop(CurlyRead(CurlyAppend(f),
                             ReadTokenFull(input, f.pos, f.useLongName)))

\* vStringStripTrailing: removes the whitespace at the end of s
RECURSIVE vStringStripTrailing(_)
vStringStripTrailing(s) ==
    IF s # <<>> /\ s[Len(s)] \in {" ", "\t", "\n"}
    THEN vStringStripTrailing(SubSeq(s, 1, Len(s) - 1))
    ELSE s

\* The brace section after its loop: fullname is stripped and, when it is
\* not empty, the tag is made.
CurlyEnd(f, kind) ==
    IF f.out \/ ~f.useLongName THEN f
    ELSE [f EXCEPT !.fullname = vStringStripTrailing(@),
                   !.made = IF vStringLength(vStringStripTrailing(f.fullname)) > 0
                            THEN @ \o MakeTexTag(vStringStripTrailing(f.fullname),
                                                 kind)
                            ELSE @]

\* The brace section without the check for \section{}: the close brace is
\* taken as the first token of the body.
CurlyBodyNoEmptyCheck(f, kind) ==
    IF f.out THEN f
    ELSE CurlyEnd(CurlyLoop([f EXCEPT !.depth = 1]), kind)

\* The brace section after its first read: a close brace right away is the
\* jump to out of \section{}.
CurlyBody(f, kind) ==
    IF f.out THEN f
    ELSE IF isType(f.token, TOKEN_CLOSE_CURLY)
    THEN [f EXCEPT !.out = TRUE, !.exit = "emptyCurly"]
    ELSE CurlyEnd(CurlyLoop([f EXCEPT !.depth = 1]), kind)

\* if (isType (token, TOKEN_OPEN_CURLY)) { ... }
CurlySection(f, kind) ==
    IF f.out \/ ~isType(f.token, TOKEN_OPEN_CURLY) THEN f
    ELSE CurlyBody(Read(f, ReadToken(input, f.pos), "curlyFirst"), kind)

\* parseTag (token, kind, enterSquare) up to the call of updateScopeInfo,
\* for the token the driver has read, with the read position p after it.
ParseTag(token, p, kind, enterSquare) ==
    CurlySection(
      StarSection(
        SquareSection(
          KeywordSection(
            [token |-> TokenOf(token), pos |-> p, fullname |-> <<>>,
             useLongName |-> TRUE, depth |-> 0, eof |-> FALSE, out |-> FALSE,
             exit |-> "end", made |-> <<>>]),
          kind, enterSquare)),
      kind)

(***************************************************************************)
(* The driver and the parser callbacks.                                    *)
(***************************************************************************)
\* The switch of parseTexFile: the kind a keyword is parsed as.
KindOfKeyword(keyword) ==
    CASE keyword = "KEYWORD_part"          -> TEXTAG_PART
      [] keyword = "KEYWORD_chapter"       -> TEXTAG_CHAPTER
      [] keyword = "KEYWORD_section"       -> TEXTAG_SECTION
      [] keyword = "KEYWORD_subsection"    -> TEXTAG_SUBSECTION
      [] keyword = "KEYWORD_subsubsection" -> TEXTAG_SUBSUBSECTION
      [] keyword = "KEYWORD_paragraph"     -> TEXTAG_PARAGRAPH
      [] keyword = "KEYWORD_subparagraph"  -> TEXTAG_SUBPARAGRAPH
      [] keyword = "KEYWORD_label"         -> TEXTAG_LABEL
      [] keyword = "KEYWORD_include"       -> TEXTAG_INCLUDE

\* The enterSquare argument true for every keyword, label included.
EnterSquareAlways(keyword) == TRUE

\* The switch of parseTexFile: the enterSquare argument for a keyword.
EnterSquareOfKeyword(keyword) == keyword # "KEYWORD_label"

\* initialize (language): creates the five remembered names, empty.
Initialize ==
    /\ pc = "start"
    /\ lastPart' = <<>>
    /\ lastChapter' = <<>>
    /\ lastSection' = <<>>
    /\ lastSubS' = <<>>
    /\ lastSubSubS' = <<>>
    /\ pc' = "ready"
    /\ UNCHANGED <<input, pos, eof, exit, tags>>

\* findTexTags () is called for an input file of D: the parser enters
\* parseTexFile with eof = false.  The host calls it after initialize and,
\* when again is true, also after an earlier call has returned.
FindTexTags(D, again) ==
    /\ pc = "ready" \/ (again /\ pc = "returned")
    /\ \E d \in D : input' = d
    /\ pos' = 1
    /\ eof' = FALSE
    /\ exit' = "none"
    /\ tags' = <<>>
    /\ pc' = "parsing"
    /\ UNCHANGED scopeVars

\* The loop after parseTag with updateScopeInfo run also after a jump to
\* out.
AfterParseTagAlwaysUpdates(kind, r) ==
    /\ tags' = tags \o r.made
    /\ UpdateScopeInfo(kind, r.fullname)
    /\ pos' = r.pos
    /\ eof' = r.eof
    /\ exit' = r.exit
    /\ pc' = IF r.eof THEN "returned" ELSE "parsing"

\* The loop after parseTag ending also when parseTag jumped to out without
\* meeting the end of the input.
AfterParseTagStopsOnOut(kind, r) ==
    /\ tags' = tags \o r.made
    /\ IF r.out THEN UNCHANGED scopeVars
                ELSE UpdateScopeInfo(kind, r.fullname)
    /\ pos' = r.pos
    /\ eof' = r.eof
    /\ exit' = r.exit
    /\ pc' = IF r.eof \/ r.out THEN "returned" ELSE "parsing"

\* The loop of parseTexFile after parseTag has returned r: the tag entries
\* made are in the tag file, updateScopeInfo has run unless parseTag jumped
\* to out, and the loop ends if parseTag returned true.
AfterParseTag(kind, r) ==
    /\ tags' = tags \o r.made
    /\ IF r.out THEN UNCHANGED scopeVars
                ELSE UpdateScopeInfo(kind, r.fullname)
    /\ pos' = r.pos
    /\ eof' = r.eof
    /\ exit' = r.exit
    /\ pc' = IF r.eof THEN "returned" ELSE "parsing"

\* The loop of parseTexFile after its readToken has returned t.
AfterReadToken(t) ==
    IF ~t.ok
    THEN /\ pc' = "returned"
         /\ pos' = t.pos
         /\ exit' = "none"
         /\ UNCHANGED <<scopeVars, eof, tags>>
    ELSE IF isType(t, TOKEN_KEYWORD)
    THEN AfterParseTag(KindOfKeyword(t.keyword),
                       ParseTag(t, t.pos, KindOfKeyword(t.keyword),
                                EnterSquareOfKeyword(t.keyword)))
    ELSE /\ pos' = t.pos
         /\ exit' = "none"
         /\ UNCHANGED <<scopeVars, pc, eof, tags>>

\* One iteration of the loop of parseTexFile, with the call of parseTag it
\* makes; when the loop ends findTexTags returns.
ParseTexFile ==
    /\ pc = "parsing"
    /\ AfterReadToken(ReadToken(input, pos))
    /\ UNCHANGED input

\* finalize (language, initialized): deletes the five remembered names.
Finalize ==
    /\ pc \in {"ready", "returned"}
    /\ lastPart' = NULL
    /\ lastChapter' = NULL
    /\ lastSection' = NULL
    /\ lastSubS' = NULL
    /\ lastSubSubS' = NULL
    /\ pc' = "finalized"
    /\ UNCHANGED <<input, pos, eof, exit, tags>>

\* The state of the program before the parser is initialized.
Init ==
    /\ lastPart = NULL
    /\ lastChapter = NULL
    /\ lastSection = NULL
    /\ lastSubS = NULL
    /\ lastSubSubS = NULL
    /\ pc = "start"
    /\ input = <<>>
    /\ pos = 1
    /\ eof = FALSE
    /\ exit = "none"
    /\ tags = <<>>

(***************************************************************************)
(* The input files.                                                        *)
(***************************************************************************)
MaxCmds == 3
MaxAtoms == 4
MaxBody == 5
MaxSquare == 2
MaxSessionCmds == 2

\* The sequences over S of length at most n.
SeqsUpTo(S, n) == UNION {[1 .. m -> S] : m \in 0 .. n}

\* The text of a keyword command: a backslash and the keyword's name.
Kw(k) == <<"\\">> \o TexKeywordTable[k]

\* The command of keyword k with the brace body name.
Cmd(k, name) == Kw(k) \o <<"{">> \o name \o <<"}">>

\* A comment: a percent sign, a text and the newline that ends it.
Comment == <<"%", "z", "\n">>

\* Commands of every kind, and a second name for the upper levels.
ScopeCmds ==
    {Cmd(k, <<"A">>) : k \in DOMAIN TexKeywordTable}
      \cup {Cmd(k, <<"B">>) :
              k \in {"KEYWORD_part", "KEYWORD_chapter", "KEYWORD_section"}}

\* Files that are a sequence of commands.
ScopeDocs == {Flatten(s) : s \in SeqsUpTo(ScopeCmds, MaxCmds)}

SessionDocs == {Flatten(s) : s \in SeqsUpTo(ScopeCmds, MaxSessionCmds)}

SyntaxKeywords == {"KEYWORD_section", "KEYWORD_label"}

\* Files that are one keyword and any pieces after it.
Atoms == {<<"[">>, <<"]">>, <<"*">>, <<"{">>, <<"}">>, <<"A">>, <<" ">>,
          Comment}

FreeDocs ==
    {Kw(k) \o Flatten(s) : k \in SyntaxKeywords, s \in SeqsUpTo(Atoms, MaxAtoms)}

\* Files that are a section command with an open brace and any body.
BodyAtoms == {<<"{">>, <<"}">>, <<"A">>, <<" ">>, Comment}

BodyDocs ==
    {Kw("KEYWORD_section") \o <<"{">> \o Flatten(s) :
        s \in SeqsUpTo(BodyAtoms, MaxBody)}

\* Files that are a command with a bracket and what may follow it.  The
\* bracket holds items, each a token and the character that ends it: ident
\* is the string of the item's Identifier token, empty when it has none.
SquareItems ==
    {[text |-> <<"S", " ">>, ident |-> <<"S">>],
     [text |-> <<"T", "*">>, ident |-> <<"T">>],
     [text |-> <<"\\", "x", " ">>, ident |-> <<"\\", "x">>],
     [text |-> Kw("KEYWORD_label") \o <<" ">>, ident |-> <<>>],
     [text |-> <<"{">>, ident |-> <<>>],
     [text |-> Comment, ident |-> <<>>]}

SquareTails == {<<>>, <<"{", "A", "}">>, <<"*", "{", "A", "}">>,
                <<"{", "A", " ", "B", "}">>, <<"{", "A">>}

SquarePres == {<<>>, Cmd("KEYWORD_chapter", <<"C">>)}

SquareKeywords == {"KEYWORD_section", "KEYWORD_label", "KEYWORD_include"}

\* The text of a sequence of items.
ItemsText(s) == Flatten([i \in DOMAIN s |-> s[i].text])

\* The file of a case: pre, then keyword k with the items s in brackets,
\* then tail.
SquareDoc(pre, k, s, tail) ==
    pre \o Kw(k) \o <<"[">> \o ItemsText(s) \o <<"]">> \o tail

SquareCases ==
    {[pre |-> pre, k |-> k, s |-> s, tail |-> tail,
      doc |-> SquareDoc(pre, k, s, tail)] :
        pre \in SquarePres, k \in SquareKeywords,
        s \in SeqsUpTo(SquareItems, MaxSquare), tail \in SquareTails}

SquareDocs == {c.doc : c \in SquareCases}

\* Files that are a command of any keyword in one of the shapes a command
\* can have, after the commands pre and before the command post.
ChainPre ==
    Cmd("KEYWORD_part", <<"P">>) \o Cmd("KEYWORD_chapter", <<"C">>)
      \o Cmd("KEYWORD_section", <<"S">>) \o Cmd("KEYWORD_subsection", <<"U">>)
      \o Cmd("KEYWORD_subsubsection", <<"V">>)

ShapePres == {<<>>, ChainPre}

ShapePosts == {<<>>, Cmd("KEYWORD_label", <<"X">>),
               Cmd("KEYWORD_section", <<"F">>)}

\* What follows the keyword: nothing, a word, a star and a word, empty
\* braces, a brace body, the starred and the bracket forms, a bracket with
\* nothing in it, a body or a bracket the input ends in, a lone star, and a
\* body with an escaped symbol.
Shapes ==
    {<<>>,
     <<" ", "A">>,
     <<"*", "A">>,
     <<"{", "}">>,
     <<"*", "{", "}">>,
     <<"{", "A", "}">>,
     <<"*", "{", "A", "}">>,
     <<"[", "S", "]", "{", "A", "}">>,
     <<"*", "[", "S", "]", "{", "A", "}">>,
     <<"[", "]", "{", "A", "}">>,
     <<"{", "A">>,
     <<"[", "S">>,
     <<"*">>,
     <<"{", "A", "\\", "&", "B", "}">>}

ShapeDoc(pre, k, shape, post) == pre \o Kw(k) \o shape \o post

ShapeCases ==
    {[pre |-> pre, k |-> k, shape |-> shape, post |-> post,
      doc |-> ShapeDoc(pre, k, shape, post)] :
        pre \in ShapePres, k \in DOMAIN TexKeywordTable,
        shape \in Shapes, post \in ShapePosts}

ShapeDocs == {c.doc : c \in ShapeCases}

Docs == ScopeDocs \cup FreeDocs \cup BodyDocs \cup SquareDocs \cup ShapeDocs

(***************************************************************************)
(* The specifications.  Spec: the parser is initialized, parses one input  *)
(* file of Docs and is finalized.  SpecSession: the parser is initialized  *)
(* once and parses any number of input files of SessionDocs.               *)
(***************************************************************************)
Next ==
    \/ Initialize
    \/ FindTexTags(Docs, FALSE)
    \/ ParseTexFile
    \/ Finalize

Spec == Init /\ [][Next]_vars

NextSession ==
    \/ Initialize
    \/ FindTexTags(SessionDocs, TRUE)
    \/ ParseTexFile
    \/ Finalize

SpecSession == Init /\ [][NextSession]_vars

\* SpecFair: one malformed input file is parsed, with the loop of
\* parseTexFile running on while it can: the parser is single-threaded and
\* nothing suspends it.
MaxLiveAtoms == 3

\* The malformed files: a keyword and any pieces after it, and the shapes.
LiveDocs ==
    {Kw(k) \o Flatten(s) :
        k \in SyntaxKeywords, s \in SeqsUpTo(Atoms, MaxLiveAtoms)}
      \cup ShapeDocs

NextFair ==
    \/ Initialize
    \/ FindTexTags(LiveDocs, FALSE)
    \/ ParseTexFile
    \/ Finalize

\* Weak fairness of the loop of parseTexFile, written out: a step of
\* ParseTexFile is possible exactly when pc = "parsing", so the loop is not
\* left waiting forever in such a state.
LoopRuns == []<>(pc # "parsing") \/ []<><<ParseTexFile>>_vars

SpecFair == Init /\ [][NextFair]_vars /\ LoopRuns

(***************************************************************************)
(* Notions the claims are stated with.                                     *)
(***************************************************************************)
\* The remembered name of a level; the levels below Subsubsection have none.
Remembered(level) ==
    CASE level = TEXTAG_PART          -> lastPart
      [] level = TEXTAG_CHAPTER       -> lastChapter
      [] level = TEXTAG_SECTION       -> lastSection
      [] level = TEXTAG_SUBSECTION    -> lastSubS
      [] level = TEXTAG_SUBSUBSECTION -> lastSubSubS
      [] OTHER                        -> <<>>

\* The first level from i down to Part whose remembered name is not empty,
\* KIND_GHOST_INDEX when there is none.
RECURSIVE NearestLevel(_)
NearestLevel(i) ==
    IF i < TEXTAG_PART THEN KIND_GHOST_INDEX
    ELSE IF Remembered(i) # <<>> THEN i
    ELSE NearestLevel(i - 1)

\* The non-empty remembered names of the levels i .. kind - 1, Part first,
\* with the separator between consecutive ones; acc is the chain so far.
RECURSIVE AncestorChain(_, _, _)
AncestorChain(i, kind, acc) ==
    IF i >= kind THEN acc
    ELSE AncestorChain(i + 1, kind,
           IF Remembered(i) = <<>> THEN acc
           ELSE IF acc = <<>> THEN Remembered(i)
           ELSE acc \o ScopeSeparator \o Remembered(i))

\* This step makes one tag entry; NewTag is that entry.
MakesTag == Len(tags') = Len(tags) + 1 /\ SubSeq(tags', 1, Len(tags)) = tags
NewTag == tags'[Len(tags')]

\* The characters of a string.
Chars(str) == {str[i] : i \in DOMAIN str}

(***************************************************************************)
(* C1.  Every tag made with a kind from Part to Subparagraph has as parent *)
(* scope kind the first level, from the level just above its kind down to  *)
(* Part, whose remembered name is not empty, and has no parent scope when  *)
(* every such level's remembered name is empty.  The code never looks at   *)
(* the remembered Subsubsection name: this statement is violated by        *)
(* \subsubsection{A}\paragraph{A}, whose Paragraph tag gets no scope.       *)
(***************************************************************************)
C1_ParentIsNearestRememberedLevel ==
    [][(MakesTag /\ NewTag.kind < TEXTAG_LABEL)
          => NewTag.scopeKindIndex = NearestLevel(NewTag.kind - 1)]_vars

(***************************************************************************)
(* C2.  The scope name of every tag made with a kind from Part to          *)
(* Subparagraph is the chain of the non-empty remembered names of the      *)
(* levels from Part up to, not including, its kind, Part first, with the   *)
(* two-character separator between consecutive names and nowhere else.     *)
(* The code leaves the remembered Subsubsection name out of the chain:     *)
(* the statement is violated by \subsubsection{A}\paragraph{A}.             *)
(***************************************************************************)
C2_ScopeNameIsAncestorChain ==
    [][(MakesTag /\ NewTag.kind < TEXTAG_LABEL)
          => NewTag.scopeName
               = AncestorChain(TEXTAG_PART, NewTag.kind, <<>>)]_vars

(***************************************************************************)
(* C3.  Whenever a tag of a level L from Part to Subsubsection is made,    *)
(* after the call the remembered name of L is the tag's name, the          *)
(* remembered name of every deeper level is empty and that of every        *)
(* shallower level is unchanged.                                           *)
(***************************************************************************)
C3_UpdateOnTag ==
    [][(MakesTag /\ NewTag.kind <= TEXTAG_SUBSUBSECTION)
          => \A l \in TEXTAG_PART .. TEXTAG_SUBSUBSECTION :
                Remembered(l)' = IF l = NewTag.kind THEN NewTag.name
                                 ELSE IF l > NewTag.kind THEN <<>>
                                 ELSE Remembered(l)]_vars

\* \part{B}\section{A}\chapter{A} has been parsed: the chapter has emptied
\* the remembered section and kept the remembered part.
C3_Witness ==
    /\ Len(tags) = 3
    /\ tags[1].kind = TEXTAG_PART /\ tags[1].name = <<"B">>
    /\ tags[2].kind = TEXTAG_SECTION
    /\ tags[3].kind = TEXTAG_CHAPTER /\ tags[3].name = <<"A">>
    /\ lastPart = <<"B">>
    /\ lastChapter = <<"A">>
    /\ lastSection = <<>>

(***************************************************************************)
(* C4.  When the parser parses one input file after another, every         *)
(* remembered name is empty when the parse of an input file starts.  The   *)
(* names are created by initialize and deleted by finalize only:           *)
(* findTexTags starts with what the file before left, and the statement    *)
(* is violated under SpecSession by \chapter{A} followed by a second file.  *)
(***************************************************************************)
AtStartOfParse == pc = "parsing" /\ pos = 1 /\ exit = "none" /\ tags = <<>>

C4_FreshScopeAtStartOfParse ==
    AtStartOfParse
      => \A l \in TEXTAG_PART .. TEXTAG_SUBSUBSECTION : Remembered(l) = <<>>

(***************************************************************************)
(* C5.  The brace body of a tag ends at the close brace that matches its   *)
(* open brace, and the name is the body up to there with the inner braces  *)
(* kept.  Stated for the files \section{body... whose body up to the       *)
(* matching brace has no comment and only single inner spaces, where the   *)
(* name is the body as written.  The code does not count an open brace     *)
(* that is the first token of the body: the statement is violated by       *)
(* \section{{A}A}, whose name is {A.                                        *)
(***************************************************************************)
\* The place of the first character of the body in a file of BodyDocs.
BodyStart == Len(Kw("KEYWORD_section")) + 2

\* The place of the close brace that brings depth to 0, from p on; 0 when
\* there is none.
RECURSIVE MatchingClose(_, _, _)
MatchingClose(inp, p, depth) ==
    IF p > Len(inp) THEN 0
    ELSE IF inp[p] = "{" THEN MatchingClose(inp, p + 1, depth + 1)
    ELSE IF inp[p] = "}"
         THEN IF depth = 1 THEN p ELSE MatchingClose(inp, p + 1, depth - 1)
    ELSE MatchingClose(inp, p + 1, depth)

\* inp from a to b has no comment and no whitespace but single spaces
\* between two other characters.
IsPlain(inp, a, b) ==
    \A i \in a .. b :
       /\ inp[i] \notin {"%", "\n", "\t"}
       /\ inp[i] = " " => (a < i /\ i < b /\ inp[i + 1] # " ")

C5_BodyEndsAtMatchingBrace ==
    (exit = "end" /\ input \in BodyDocs)
      => LET m == MatchingClose(input, BodyStart, 1)
         IN  (m > 0 /\ IsPlain(input, BodyStart, m - 1))
               => /\ pos = m + 1
                  /\ Len(tags) = 1
                  /\ tags[1].name = SubSeq(input, BodyStart, m - 1)

(***************************************************************************)
(* C6.  A Label tag never has a parent scope kind or a scope name; and     *)
(* what stands between [ and ] before the braces of a label makes no tag   *)
(* and is in no tag name: the tags of a file pre \label[items]tail are     *)
(* those of pre followed by the Label tag of the braces of tail, if any.   *)
(***************************************************************************)
\* The name the braces of a tail give: none for no braces or open ones.
TailName(tail) ==
    CASE tail = <<"{", "A", "}">>           -> <<"A">>
      [] tail = <<"*", "{", "A", "}">>      -> <<"A">>
      [] tail = <<"{", "A", " ", "B", "}">> -> <<"A", " ", "B">>
      [] OTHER                              -> <<>>

\* A tag entry without a parent scope.
TopTag(name, kind) ==
    [name |-> name, kind |-> kind, scopeKindIndex |-> KIND_GHOST_INDEX,
     scopeName |-> <<>>]

\* The tag entries of the commands before the bracket command.
PreTags(pre) ==
    IF pre = <<>> THEN <<>> ELSE <<TopTag(<<"C">>, TEXTAG_CHAPTER)>>

\* The cases whose file is the input.
CasesOfInput == {c \in SquareCases : c.doc = input}

C6_LabelHasNoScopeAndSkipsBracket ==
    /\ \A i \in DOMAIN tags :
          tags[i].kind = TEXTAG_LABEL
            => tags[i].scopeKindIndex = KIND_GHOST_INDEX
                 /\ tags[i].scopeName = <<>>
    /\ (pc = "returned" /\ input \in SquareDocs)
          => \A c \in CasesOfInput :
                c.k = "KEYWORD_label"
                  => tags = PreTags(c.pre)
                              \o (IF TailName(c.tail) = <<>> THEN <<>>
                                  ELSE <<TopTag(TailName(c.tail),
                                                TEXTAG_LABEL)>>)

\* \chapter{C}\label[S \label ]{A} has been parsed.
C6_Witness ==
    /\ pc = "returned"
    /\ input = SquareDoc(Cmd("KEYWORD_chapter", <<"C">>), "KEYWORD_label",
                         << [text |-> <<"S", " ">>, ident |-> <<"S">>],
                            [text |-> Kw("KEYWORD_label") \o <<" ">>,
                             ident |-> <<>>] >>,
                         <<"{", "A", "}">>)
    /\ tags = <<TopTag(<<"C">>, TEXTAG_CHAPTER), TopTag(<<"A">>, TEXTAG_LABEL)>>

(***************************************************************************)
(* C7.  A section command with a bracket that holds an Identifier token    *)
(* and with a brace body right after it gives exactly one tag: its name    *)
(* is the Identifier tokens of the bracket joined by single spaces, and    *)
(* no tag is named after the brace body.                                   *)
(***************************************************************************)
\* The identifiers of the items s from i on, joined by single spaces after
\* acc.
RECURSIVE JoinIdents(_, _, _)
JoinIdents(s, i, acc) ==
    IF i > Len(s) THEN acc
    ELSE JoinIdents(s, i + 1,
           IF s[i].ident = <<>> THEN acc
           ELSE IF acc = <<>> THEN s[i].ident
           ELSE acc \o <<" ">> \o s[i].ident)

HasBraceBody(tail) == tail \in {<<"{", "A", "}">>, <<"{", "A", " ", "B", "}">>}

C7_BracketNameOnly ==
    (pc = "returned" /\ input \in SquareDocs)
      => \A c \in CasesOfInput :
            (/\ c.k = "KEYWORD_section"
             /\ HasBraceBody(c.tail)
             /\ JoinIdents(c.s, 1, <<>>) # <<>>)
              => /\ Len(tags) = Len(PreTags(c.pre)) + 1
                 /\ SubSeq(tags, 1, Len(PreTags(c.pre))) = PreTags(c.pre)
                 /\ tags[Len(tags)].kind = TEXTAG_SECTION
                 /\ tags[Len(tags)].name = JoinIdents(c.s, 1, <<>>)
                 /\ \A i \in DOMAIN tags : tags[i].name # TailName(c.tail)

\* \section[S T*]{A B} has been parsed.
C7_Witness ==
    /\ pc = "returned"
    /\ input = SquareDoc(<<>>, "KEYWORD_section",
                         << [text |-> <<"S", " ">>, ident |-> <<"S">>],
                            [text |-> <<"T", "*">>, ident |-> <<"T">>] >>,
                         <<"{", "A", " ", "B", "}">>)
    /\ tags = <<TopTag(<<"S", " ", "T">>, TEXTAG_SECTION)>>

(***************************************************************************)
(* C8.  No character of a comment, from the percent sign to the newline    *)
(* that ends it, is in a tag name, also when the comment is in a brace     *)
(* body; and the tokens around the comment are joined by one space:        *)
(* \section{A %z<newline>A} gives the name "A A".  In the input files a    *)
(* percent sign, a z or a newline only ever stands in a comment.           *)
(***************************************************************************)
CommentExample ==
    Kw("KEYWORD_section") \o <<"{", "A", " ">> \o Comment \o <<"A", "}">>

C8_CommentNotInName ==
    /\ \A i \in DOMAIN tags : Chars(tags[i].name) \cap Chars(Comment) = {}
    /\ (pc = "returned" /\ input = CommentExample)
          => tags = <<TopTag(<<"A", " ", "A">>, TEXTAG_SECTION)>>

\* \section{A %z<newline>A} has been parsed.
C8_Witness ==
    /\ pc = "returned"
    /\ input = CommentExample
    /\ Len(tags) = 1
    /\ tags[1].name = <<"A", " ", "A">>

(***************************************************************************)
(* C9.  The tokenizer gives a space token only when a space, tab or        *)
(* newline was skipped in front of the next token: a brace body with no    *)
(* whitespace outside its comments gives a name with no space in it.  The  *)
(* code counts the percent sign of a skipped comment as whitespace: the    *)
(* statement is violated by \section{A%z<newline>A}, whose name is "A A".   *)
(***************************************************************************)
C9_SpaceOnlyForSkippedWhitespace ==
    (input \in BodyDocs /\ Chars(input) \cap {" ", "\t"} = {})
      => \A i \in DOMAIN tags : " " \notin Chars(tags[i].name)

(***************************************************************************)
(* C10.  When a read of parseTag meets the end of the input, the call      *)
(* makes no tag, leaves the remembered names as they are and returns true, *)
(* and the driver stops; the tags made before stay as they are.            *)
(***************************************************************************)
ReadPlaces == {"keyword", "square", "afterSquare", "star", "curlyFirst",
               "curly"}

C10_EofAbortsTag ==
    [][(pc = "parsing" /\ (eof' \/ exit' \in ReadPlaces))
          => /\ eof' /\ exit' \in ReadPlaces
             /\ tags' = tags
             /\ UNCHANGED scopeVars
             /\ pc' = "returned"]_vars

\* \chapter{C}\label[S ]{A has been parsed: the input ended in the brace
\* body of the label.
C10_Witness ==
    /\ pc = "returned"
    /\ eof
    /\ exit = "curly"
    /\ tags = <<TopTag(<<"C">>, TEXTAG_CHAPTER)>>
    /\ lastChapter = <<"C">>
    /\ input = SquareDoc(Cmd("KEYWORD_chapter", <<"C">>), "KEYWORD_label",
                         << [text |-> <<"S", " ">>, ident |-> <<"S">>] >>,
                         <<"{", "A">>)

(***************************************************************************)
(* C11.  A command of any of the nine keywords whose braces are empty,     *)
(* \keyword{}, makes no tag: the step of the driver that reads such a      *)
(* command leaves the tag entries as they are.                             *)
(***************************************************************************)
\* The text at the read position is the command of keyword k followed by
\* rest.
CommandAt(k, rest) ==
    /\ pc = "parsing"
    /\ pos + Len(Kw(k)) + Len(rest) - 1 <= Len(input)
    /\ SubSeq(input, pos, pos + Len(Kw(k)) + Len(rest) - 1) = Kw(k) \o rest

C11_EmptyBracesMakeNoTag ==
    [][\A k \in DOMAIN TexKeywordTable :
          CommandAt(k, <<"{", "}">>) => tags' = tags /\ exit' = "emptyCurly"]_vars

\* \part{P}...\subsubsection{V}\include{} has been read up to the end of
\* the empty braces: the five tags of the commands before, and no other.
C11_Witness ==
    /\ pc = "parsing"
    /\ exit = "emptyCurly"
    /\ input = ShapeDoc(ChainPre, "KEYWORD_include", <<"{", "}">>,
                        Cmd("KEYWORD_section", <<"F">>))
    /\ pos = Len(ChainPre) + Len(Kw("KEYWORD_include")) + 3
    /\ Len(tags) = 5

(***************************************************************************)
(* C12.  Every input file that contains the command \section{F}, outside   *)
(* any comment and any argument of another command and with no Part or     *)
(* Chapter tag made before it, gives a tag with name F, kind Section and   *)
(* no parent scope.  Stated for the files \keyword shape \section{F} with  *)
(* a keyword other than part and chapter and a shape that leaves no brace  *)
(* or bracket open.  The call of parseTag for the command before reads     *)
(* the keyword \section as its lookahead and drops it: the statement is    *)
(* violated by \label\section{F}, which gives no tag.                       *)
(***************************************************************************)
\* The shapes that end inside a brace body or a bracket.
OpenShapes == {<<"{", "A">>, <<"[", "S">>}

C12_SectionCommandIsTagged ==
    (pc = "returned" /\ input \in ShapeDocs)
      => \A c \in {d \in ShapeCases : d.doc = input} :
            (/\ c.pre = <<>>
             /\ c.post = Cmd("KEYWORD_section", <<"F">>)
             /\ c.k \notin {"KEYWORD_part", "KEYWORD_chapter"}
             /\ c.shape \notin OpenShapes)
              => \E i \in DOMAIN tags : tags[i] = TopTag(<<"F">>, TEXTAG_SECTION)

(***************************************************************************)
(* C13.  For every input file, well formed or not, the loop of the driver  *)
(* ends; every iteration that does not end it moves the read position      *)
(* forward; and it ends only with the input read to its end, so no         *)
(* command that fails to give a tag ends the scan while input remains.     *)
(***************************************************************************)
C13_ScanEndsAtEndOfInput ==
    /\ (pc = "parsing") ~> (pc = "returned")
    /\ [][pc = "parsing"
            => /\ pc' = "parsing" => pos < pos' /\ pos' <= Len(input) + 1
               /\ pc' = "returned" => pos' = Len(input) + 1
               /\ eof' => (pc' = "returned" /\ exit' \in ReadPlaces)]_vars

\* \section{}\section{F} has been parsed to its end: the empty braces gave
\* no tag and the command after them was read.
C13_Witness ==
    /\ pc = "returned"
    /\ input = ShapeDoc(<<>>, "KEYWORD_section", <<"{", "}">>,
                        Cmd("KEYWORD_section", <<"F">>))
    /\ pos = Len(input) + 1
    /\ tags = <<TopTag(<<"F">>, TEXTAG_SECTION)>>

(***************************************************************************)
(* C14.  The remembered names change only when a tag is made: a step of    *)
(* the driver that makes no tag, whatever stands after the keyword (a      *)
(* token that is no bracket, star or brace, a star and such a token, empty *)
(* braces, the end of the input), leaves the five names as they are.  The  *)
(* code calls updateScopeInfo with the empty name whenever parseTag runs   *)
(* to its end: the statement is violated by \chapter{C}\section{S}\section *)
(* A, whose last command makes no tag and empties the remembered section.  *)
(***************************************************************************)
C14_ScopeChangesOnlyWithTag ==
    [][(pc = "parsing" /\ tags' = tags) => UNCHANGED scopeVars]_vars

(***************************************************************************)
(* C15.  The step of the driver that reads a Paragraph, Subparagraph,      *)
(* Label or Include command, whatever its shape (bracket, star, brace      *)
(* body, none of them, or the end of the input in it), leaves the five     *)
(* remembered names as they are.                                           *)
(***************************************************************************)
\* The token at the read position is the keyword k.
KeywordAt(k) ==
    CommandAt(k, <<>>) /\ ~IsIdentChar(Getc(input, pos + Len(Kw(k))))

UnscopedKeywords == {"KEYWORD_paragraph", "KEYWORD_subparagraph",
                     "KEYWORD_label", "KEYWORD_include"}

C15_UnscopedKindsKeepScope ==
    [][\A k \in UnscopedKeywords : KeywordAt(k) => UNCHANGED scopeVars]_vars

\* \part{P}...\subsubsection{V}\paragraph[S]{A} has been read up to the
\* bracket's end: the Paragraph tag S is made and the five names are those
\* of the five commands before.
C15_Witness ==
    /\ pc = "parsing"
    /\ exit = "end"
    /\ input = ShapeDoc(ChainPre, "KEYWORD_paragraph",
                        <<"[", "S", "]", "{", "A", "}">>, <<>>)
    /\ Len(tags) = 6
    /\ tags[6].kind = TEXTAG_PARAGRAPH
    /\ tags[6].name = <<"S">>
    /\ scopeVars = << <<"P">>, <<"C">>, <<"S">>, <<"U">>, <<"V">> >>

(***************************************************************************)
(* C16.  No tag with an empty name is ever made: a bracket that holds no   *)
(* Identifier token, as in \section[]{A}, gives no tag.  The code makes    *)
(* the tag of a bracket without looking at the name built from it: the     *)
(* statement is violated by \section[]{A}, which gives a Section tag with  *)
(* the empty name.                                                         *)
(***************************************************************************)
C16_NoTagWithEmptyName ==
    \A i \in DOMAIN tags : tags[i].name # <<>>

(***************************************************************************)
(* C17.  The three formats \keyword{A}, \keyword[S]{A} and                 *)
(* \keyword*[S]{A}, and \keyword*{A}, each give a tag, and the star makes  *)
(* no difference: the step of the driver that reads the command, with or   *)
(* without the star, makes the one tag that makeTexTag gives for the       *)
(* keyword's kind and the name of the format (S from the bracket, A from   *)
(* the braces when there is no bracket or the keyword is label).  The code *)
(* looks for the bracket before the star: the statement is violated by     *)
(* \section*[S]{A}, which gives no tag.                                     *)
(***************************************************************************)
BraceForm == <<"{", "A", "}">>
BracketForm == <<"[", "S", "]", "{", "A", "}">>

\* The name the format gives for keyword k.
FormName(k, form) ==
    IF form = BracketForm /\ k # "KEYWORD_label" THEN <<"S">> ELSE <<"A">>

C17_StarredFormsGiveTheSameTag ==
    [][\A k \in DOMAIN TexKeywordTable :
         \A star \in {<<>>, <<"*">>} :
           \A form \in {BraceForm, BracketForm} :
              CommandAt(k, star \o form)
                => tags' = tags \o MakeTexTag(FormName(k, form),
                                              KindOfKeyword(k))]_vars

(***************************************************************************)
(* C18.  As claimed: the backslash of an escaped symbol is dropped by the  *)
(* tokenizer, so in no tag name does a backslash stand before a character  *)
(* that is no letter (or at the end).  The code returns such a backslash   *)
(* as a token of its own and the brace body appends it: the statement is   *)
(* violated by \section{A\&B}, whose name is A\&B.                          *)
(***************************************************************************)
C18_NoEscapeBackslashInName ==
    \A i \in DOMAIN tags :
       \A j \in DOMAIN tags[i].name :
          tags[i].name[j] = "\\"
            => j < Len(tags[i].name) /\ IsAlpha(tags[i].name[j + 1])

(***************************************************************************)
(* C18, as amended.  A backslash before a character that is no letter is   *)
(* returned as a token of its own, with that character left to be read     *)
(* next, and a brace body keeps it: the command \keyword{A\&B} of any      *)
(* keyword gives the one tag with the name A\&B.                           *)
(***************************************************************************)
EscapeBody == <<"{", "A", "\\", "&", "B", "}">>

C18_EscapeBackslashIsKept ==
    [][\A k \in DOMAIN TexKeywordTable :
          CommandAt(k, EscapeBody)
            => tags' = tags \o MakeTexTag(<<"A", "\\", "&", "B">>,
                                          KindOfKeyword(k))]_vars

\* \subsection{A\&B}\label{X} has been parsed.
C18_Witness ==
    /\ pc = "returned"
    /\ input = ShapeDoc(<<>>, "KEYWORD_subsection", EscapeBody,
                        Cmd("KEYWORD_label", <<"X">>))
    /\ tags = <<TopTag(<<"A", "\\", "&", "B">>, TEXTAG_SUBSECTION),
                TopTag(<<"X">>, TEXTAG_LABEL)>>
    /\ lastSubS = <<"A", "\\", "&", "B">>

(***************************************************************************)
(* C19.  Every keyword outside the bracket and the braces of another       *)
(* command is handed to parseTag by the driver, also when the call of      *)
(* parseTag for the command before has read it as its lookahead: the files *)
(* \keyword\label{X} and \keyword*\label{X} give the Label tag X.  The     *)
(* code reads the lookahead into the driver's token and returns without    *)
(* looking at it again: the statement is violated by \section\label{X},    *)
(* which gives no tag.                                                     *)
(***************************************************************************)
C19_LookaheadKeywordIsDispatched ==
    (pc = "returned" /\ input \in ShapeDocs)
      => \A c \in {d \in ShapeCases : d.doc = input} :
            (c.shape \in {<<>>, <<"*">>}
               /\ c.post = Cmd("KEYWORD_label", <<"X">>))
              => \E i \in DOMAIN tags : tags[i] = TopTag(<<"X">>, TEXTAG_LABEL)

=============================================================================
